---- MODULE Spec2Model ----
(***************************************************************************)
(* Model of the Authenticode verifier of the tgbverifier extension module  *)
(* (src/client/submodules/tgbverifier/src/tgbverifiermodule.c).            *)
(*                                                                         *)
(* A request is one call of tgb_is_signed.  The platform (WinVerifyTrust,  *)
(* CryptQueryObject, CryptMsgGetParam, CryptDecodeObject, the certificate  *)
(* store, the allocators, the C runtime) is an oracle: the first time a    *)
(* question is asked its answer is chosen freely and recorded in `world`;  *)
(* later askers get the recorded answer (unmodified file, unchanged trust  *)
(* store and platform state).  All requests of one behaviour are about the *)
(* same file.                                                              *)
(*                                                                         *)
(* Text is a tuple of character codes.  A pointer is <<>> (NULL) or <<v>>. *)
(***************************************************************************)
EXTENDS Integers, Sequences, FiniteSets, TLC

\* ------------------------------------------------------------------ bounds
MaxCalls == 2     \* consecutive calls made by the sequential caller
MaxAttrs == 2     \* authenticated attributes in a signer-info record

\* --------------------------------------------------------------- constants
WTD_CACHE_ONLY_URL_RETRIEVAL == 4096
PrefixLenTheGreenBow == 11
PrefixLenSISTECH == 7

TheGreenBow == <<84, 104, 101, 71, 114, 101, 101, 110, 66, 111, 119>>  \* "TheGreenBow"
SISTECH == <<83, 73, 83, 84, 69, 67, 72>>  \* "SISTECH"

Name_TheGreenBowNetworks == <<84, 104, 101, 71, 114, 101, 101, 110, 66, 111, 119, 32, 78, 101, 116, 119, 111, 114, 107, 115>>  \* "TheGreenBow Networks"
Name_NotTheGreenBowInc == <<78, 111, 116, 32, 84, 104, 101, 71, 114, 101, 101, 110, 66, 111, 119, 32, 73, 110, 99>>  \* "Not TheGreenBow Inc"
Name_thegreenbow == <<116, 104, 101, 103, 114, 101, 101, 110, 98, 111, 119, 32, 118, 112, 110>>  \* "thegreenbow vpn"
Name_TheGreenBo == <<84, 104, 101, 71, 114, 101, 101, 110, 66, 111>>  \* "TheGreenBo"
Name_SistechSA == <<83, 105, 115, 116, 101, 99, 104, 32, 83, 65>>  \* "Sistech SA"
Name_SISTEC == <<83, 73, 83, 84, 69, 67>>  \* "SISTEC"
Name_XSISTECH == <<88, 83, 73, 83, 84, 69, 67, 72>>  \* "XSISTECH"
Name_EvilCorp == <<69, 118, 105, 108, 32, 67, 111, 114, 112>>  \* "Evil Corp"
Name_Empty == <<>>  \* ""
Name_IssuerCA == <<67, 65>>  \* "CA"
SerialBytes == <<18, 52>>

\* Display names the certificate store can hand out for the signer.
SubjectNames ==
  { Name_TheGreenBowNetworks, Name_NotTheGreenBowInc, Name_thegreenbow,
    Name_TheGreenBo, Name_SistechSA, Name_SISTEC, Name_XSISTECH,
    Name_EvilCorp, Name_Empty }

\* ------------------------------------------------------------ C runtime
tolower(c) == IF c \in 65..90 THEN c + 32 ELSE c

\* *(s + i - 1) of a NUL-terminated string
CharAt(s, i) == IF i <= Len(s) THEN s[i] ELSE 0

RECURSIVE strnicmp_from(_, _, _, _)
strnicmp_from(s1, s2, i, count) ==
  LET f == tolower(CharAt(s1, i))
      l == tolower(CharAt(s2, i))
  IN IF i < count /\ f # 0 /\ f = l
       THEN strnicmp_from(s1, s2, i + 1, count)
       ELSE f - l

\* _tcsncicmp of two non-NULL strings (_strnicmp in this ANSI build)
tcsncicmp(s1, s2, count) ==
  IF count = 0 THEN 0 ELSE strnicmp_from(s1, s2, 1, count)

\* ------------------------------------------------------- platform values
ERROR_SUCCESS == "ERROR_SUCCESS"
TRUST_E_NOSIGNATURE == "TRUST_E_NOSIGNATURE"
TRUST_E_EXPLICIT_DISTRUST == "TRUST_E_EXPLICIT_DISTRUST"
TRUST_E_SUBJECT_NOT_TRUSTED == "TRUST_E_SUBJECT_NOT_TRUSTED"
CRYPT_E_SECURITY_SETTINGS == "CRYPT_E_SECURITY_SETTINGS"
TRUST_E_BAD_DIGEST == "TRUST_E_BAD_DIGEST"
CERT_E_CHAINING == "CERT_E_CHAINING"
TRUST_E_SUBJECT_FORM_UNKNOWN == "TRUST_E_SUBJECT_FORM_UNKNOWN"
TRUST_E_PROVIDER_UNKNOWN == "TRUST_E_PROVIDER_UNKNOWN"

\* Status codes the switch names, and two it does not.
NamedStatus ==
  { ERROR_SUCCESS, TRUST_E_NOSIGNATURE, TRUST_E_EXPLICIT_DISTRUST,
    TRUST_E_SUBJECT_NOT_TRUSTED, CRYPT_E_SECURITY_SETTINGS,
    TRUST_E_BAD_DIGEST, CERT_E_CHAINING }
OtherStatus == { "CERT_E_EXPIRED", "CRYPT_E_FILE_ERROR" }
Status == NamedStatus \cup OtherStatus

LastErrors ==
  { TRUST_E_NOSIGNATURE, TRUST_E_SUBJECT_FORM_UNKNOWN,
    TRUST_E_PROVIDER_UNKNOWN, "ERROR_FILE_NOT_FOUND" }

\* What one WinVerifyTrust call answers: <<lStatus, GetLastError()>>; the
\* last error is only read after TRUST_E_NOSIGNATURE.
WvtAnswers ==
  { <<s, "unread">> : s \in Status \ {TRUST_E_NOSIGNATURE} }
    \cup { <<TRUST_E_NOSIGNATURE, e>> : e \in LastErrors }

ProvFlags == { 0, WTD_CACHE_ONLY_URL_RETRIEVAL }

Procs == { "r1", "r2" }

NULL == <<>>
Ptr(v) == <<v>>

\* The answers still open for a question, given what was recorded.
Ans(cell, choices) == IF cell = <<>> THEN choices ELSE { cell[1] }


\* As Ans, for a question that is only asked when `asked` holds.
AskIf(asked, cell, choices, skip) == IF asked THEN Ans(cell, choices) ELSE { skip }

\* The cell after the question was (or was not) asked.
Rec(asked, cell, v) == IF asked THEN <<v>> ELSE cell

\* ------------------------------------------------- signer-info contents
SPC_SP_OPUS_INFO_OBJID == "1.3.6.1.4.1.311.2.1.12"
OtherObjId == "1.2.840.113549.1.9.4"
ObjIds == { SPC_SP_OPUS_INFO_OBJID, OtherObjId }

\* pSignerInfo->AuthAttrs.rgAttr: the attribute identifiers, in order.
\* Every attribute carries at least one value (rgValue[0] exists).
AttrLists == UNION { [1..n -> ObjIds] : n \in 0..MaxAttrs }

SPC_URL_LINK_CHOICE == 1
SPC_MONIKER_LINK_CHOICE == 2
SPC_FILE_LINK_CHOICE == 3
LinkChoices == { SPC_URL_LINK_CHOICE, SPC_MONIKER_LINK_CHOICE, SPC_FILE_LINK_CHOICE }

Text_Program == <<80>>   \* "P"
Text_Url == <<117>>      \* "u"
Text_File == <<102>>     \* "f"

\* An SPC_LINK: the choice tag and the union member it selects (pwszUrl
\* and pwszFile share storage; a moniker link holds no text).
SpcLinks ==
  { [dwLinkChoice |-> SPC_URL_LINK_CHOICE, text |-> Text_Url],
    [dwLinkChoice |-> SPC_FILE_LINK_CHOICE, text |-> Text_File],
    [dwLinkChoice |-> SPC_MONIKER_LINK_CHOICE, text |-> <<>>] }

\* A decoded SPC_SP_OPUS_INFO.
OpusInfos ==
  [ pwszProgramName : { NULL, Ptr(Text_Program) },
    pPublisherInfo : { NULL } \cup { Ptr(l) : l \in SpcLinks },
    pMoreInfo : { NULL } \cup { Ptr(l) : l \in SpcLinks } ]

\* ------------------------------------------------------------- the state
VARIABLES
  world,         \* recorded platform answers (see Ans)
  args,          \* what each caller passes: "str" (a path) or "other"
  budget,        \* how many calls each caller makes
  pc,            \* where each request is
  Count,         \* SD_VerifyEmbeddedSignature: Count
  DoSecondPass,  \* SD_VerifyEmbeddedSignature: DoSecondPass
  lStatus,       \* SD_VerifyEmbeddedSignature: lStatus, then its return value
  pSignerInfo,   \* SD_GetAuthenticodeInformation: pSignerInfo
  bRet,          \* SD_GetAuthenticodeInformation: bRet, then its return value
  SignInfo,      \* tgb_is_signed: SignInfo
  held,          \* native resources the current call holds
  returned,      \* the outcomes of the calls made so far, in order
  wvtLog,        \* the WinVerifyTrust calls of the current request
  started,       \* the extraction steps the current request entered
  compared,      \* what the current request gave _tcsncicmp as subject
  writes         \* the buffers the current request wrote into, and whether
                 \* each had been allocated

vars == << world, args, budget, writes, pc, Count, DoSecondPass, lStatus, pSignerInfo,
           bRet, SignInfo, held, returned, wvtLog, started, compared >>

\* A write into a buffer, and whether the buffer had been allocated.
Write(buffer, allocated) == [buffer |-> buffer, allocated |-> allocated]

\* ZeroMemory(&SignInfo, sizeof(SignInfo))
ZeroSignInfo ==
  [ lpszProgramName |-> NULL, lpszPublisherLink |-> NULL,
    lpszMoreInfoLink |-> NULL, cbSerialSize |-> 0, lpSerialNumber |-> NULL,
    lpszIssuerName |-> NULL, lpszSubjectName |-> NULL ]

NoAnswers ==
  [ wvt |-> [f \in ProvFlags |-> <<>>],
    conv |-> <<>>, cqo |-> <<>>, siSize |-> <<>>, siAlloc |-> <<>>,
    siFetch |-> <<>>,
    decodeSize |-> [n \in 0..MaxAttrs |-> <<>>],
    opusAlloc |-> [n \in 0..MaxAttrs |-> <<>>],
    decode |-> [n \in 0..MaxAttrs |-> <<>>],
    copyProgram |-> <<>>, copyPublisher |-> <<>>, copyMore |-> <<>>,
    certFound |-> <<>>, serialAlloc |-> <<>>,
    issSize |-> <<>>, issAlloc |-> <<>>, issFetch |-> <<>>,
    subSize |-> <<>>, subAlloc |-> <<>>, subFetch |-> <<>>,
    nullcmp |-> <<>> ]

ArgKinds == { "str", "other" }

\* The file the concurrent callers ask about: its opus-info attribute, where
\* it has one, decodes to a program name, a URL link and a file link.
ConcOpusInfo ==
  [ pwszProgramName |-> Ptr(Text_Program),
    pPublisherInfo |-> Ptr([dwLinkChoice |-> SPC_URL_LINK_CHOICE, text |-> Text_Url]),
    pMoreInfo |-> Ptr([dwLinkChoice |-> SPC_FILE_LINK_CHOICE, text |-> Text_File]) ]

ConcAnswers ==
  [ NoAnswers EXCEPT !.decode = [n \in 0..MaxAttrs |-> << Ptr(ConcOpusInfo) >>] ]

InitLocalsBut(answers) ==
  /\ world = answers
  /\ pc = [p \in Procs |-> "idle"]
  /\ Count = [p \in Procs |-> 0]
  /\ DoSecondPass = [p \in Procs |-> FALSE]
  /\ lStatus = [p \in Procs |-> "unset"]
  /\ pSignerInfo = [p \in Procs |-> NULL]
  /\ bRet = [p \in Procs |-> FALSE]
  /\ SignInfo = [p \in Procs |-> ZeroSignInfo]
  /\ held = [p \in Procs |-> {}]
  /\ returned = [p \in Procs |-> <<>>]
  /\ wvtLog = [p \in Procs |-> <<>>]
  /\ started = [p \in Procs |-> {}]
  /\ compared = [p \in Procs |-> "nothing"]
  /\ writes = [p \in Procs |-> {}]

\* One caller making MaxCalls consecutive calls.
Init ==
  /\ InitLocalsBut(NoAnswers)
  /\ budget = [p \in Procs |-> IF p = "r1" THEN MaxCalls ELSE 0]
  /\ args \in { a \in [Procs -> ArgKinds] : a["r2"] = "str" }

\* Two callers making one call each, concurrently.
InitConc ==
  /\ InitLocalsBut(ConcAnswers)
  /\ budget = [p \in Procs |-> 1]
  /\ args \in [Procs -> ArgKinds]

\* The call of p ends with outcome r ("True", "False", or "TypeError" for
\* the NULL return that raises in the interpreter).
Return(p, r) ==
  /\ pc' = [pc EXCEPT ![p] = "idle"]
  /\ returned' = [returned EXCEPT ![p] = Append(@, r)]

\* The call of p ends in an unhandled structured exception or in the C
\* runtime's invalid-parameter abort: no value reaches the caller.
Fault(p) ==
  /\ pc' = [pc EXCEPT ![p] = "dead"]
  /\ returned' = [returned EXCEPT ![p] = Append(@, "fault")]

\* ---------------------------------------------------------- tgb_is_signed
\* Entry: ZeroMemory, bRet = FALSE, PyArg_ParseTuple.
tgb_is_signed_Enter(p) ==
  /\ pc[p] = "idle"
  /\ Len(returned[p]) < budget[p]
  /\ SignInfo' = [SignInfo EXCEPT ![p] = ZeroSignInfo]
  /\ bRet' = [bRet EXCEPT ![p] = FALSE]
  /\ held' = [held EXCEPT ![p] = {}]
  /\ wvtLog' = [wvtLog EXCEPT ![p] = <<>>]
  /\ started' = [started EXCEPT ![p] = {}]
  /\ compared' = [compared EXCEPT ![p] = "nothing"]
  /\ writes' = [writes EXCEPT ![p] = {}]
  /\ IF args[p] = "str"
       THEN /\ pc' = [pc EXCEPT ![p] = "verify"]
            /\ UNCHANGED returned
       ELSE Return(p, "TypeError")
  /\ UNCHANGED << world, args, budget, Count, DoSecondPass, lStatus, pSignerInfo >>

\* ------------------------------------------- SD_VerifyEmbeddedSignature
\* An entry that keeps the Count of the previous call.
SD_VerifyEmbeddedSignature_Enter_StaleCount(p) ==
  /\ pc[p] = "verify"
  /\ DoSecondPass' = [DoSecondPass EXCEPT ![p] = FALSE]
  /\ pc' = [pc EXCEPT ![p] = "loop"]
  /\ UNCHANGED << world, args, budget, writes, Count, lStatus, pSignerInfo, bRet, SignInfo,
                  held, returned, wvtLog, started, compared >>

\* DoSecondPass = FALSE; Count = 0;
SD_VerifyEmbeddedSignature_Enter(p) ==
  /\ pc[p] = "verify"
  /\ DoSecondPass' = [DoSecondPass EXCEPT ![p] = FALSE]
  /\ Count' = [Count EXCEPT ![p] = 0]
  /\ pc' = [pc EXCEPT ![p] = "loop"]
  /\ UNCHANGED << world, args, budget, writes, lStatus, pSignerInfo, bRet, SignInfo,
                  held, returned, wvtLog, started, compared >>

\* Flags that ask for cached data on every attempt.
AttemptProvFlags_AlwaysCacheOnly(doSecondPass) == WTD_CACHE_ONLY_URL_RETRIEVAL

\* The dwProvFlags of the attempt: the struct is zeroed, and the cache-only
\* flag is set while DoSecondPass is FALSE.
AttemptProvFlags(doSecondPass) ==
  IF doSecondPass = FALSE THEN WTD_CACHE_ONLY_URL_RETRIEVAL ELSE 0

\* A switch whose bad-digest case asks for a second pass.
SwitchOnStatus_BadDigestRetries(status, doSecondPass) ==
  IF status \in {TRUST_E_BAD_DIGEST, CERT_E_CHAINING} \/ status \notin NamedStatus
    THEN TRUE ELSE doSecondPass

\* The switch on lStatus: DoSecondPass after it.
SwitchOnStatus(status, doSecondPass) ==
  CASE status = ERROR_SUCCESS -> doSecondPass
    [] status = TRUST_E_NOSIGNATURE -> doSecondPass
    [] status = TRUST_E_EXPLICIT_DISTRUST -> doSecondPass
    [] status = TRUST_E_SUBJECT_NOT_TRUSTED -> doSecondPass
    [] status = CRYPT_E_SECURITY_SETTINGS -> doSecondPass
    [] status = TRUST_E_BAD_DIGEST -> doSecondPass
    [] status = CERT_E_CHAINING -> TRUE
    [] OTHER -> TRUE

\* A loop bounded by three passes.
LoopAgain_UpToThree(doSecondPass, count) == (doSecondPass = TRUE) /\ (count < 3)

\* A loop that never repeats.
LoopAgain_Never(doSecondPass, count) == FALSE

\* while ((DoSecondPass == TRUE) && (Count < 2))
LoopAgain(doSecondPass, count) == (doSecondPass = TRUE) /\ (count < 2)

\* A Count that is never incremented.
StoreCount_NoIncrement(p, count) == Count

\* A Count that all requests share.
StoreCount_Shared(p, count) == [q \in Procs |-> count]

\* Count++ : Count is a local of the request that runs the loop.
StoreCount(p, count) == [Count EXCEPT ![p] = count]

\* One iteration of the do-while loop.
WinVerifyTrustAttempt(p) ==
  /\ pc[p] = "loop"
  /\ LET flags == AttemptProvFlags(DoSecondPass[p])
     IN \E a \in Ans(world.wvt[flags], WvtAnswers) :
          LET second == SwitchOnStatus(a[1], DoSecondPass[p])
              count == Count[p] + 1
          IN /\ world' = [world EXCEPT !.wvt[flags] = <<a>>]
             /\ lStatus' = [lStatus EXCEPT ![p] = a[1]]
             /\ DoSecondPass' = [DoSecondPass EXCEPT ![p] = second]
             /\ Count' = StoreCount(p, count)
             /\ wvtLog' = [wvtLog EXCEPT ![p] = Append(@,
                             [ pcwszFilePath |-> "path",
                               dwUIChoice |-> "WTD_UI_NONE",
                               fdwRevocationChecks |-> "WTD_REVOKE_NONE",
                               dwProvFlags |-> flags,
                               lStatus |-> a[1],
                               dwLastError |-> a[2] ])]
             /\ pc' = [pc EXCEPT ![p] = IF LoopAgain(second, count) THEN "loop" ELSE "gate"]
  /\ UNCHANGED << args, budget, writes, pSignerInfo, bRet, SignInfo, held, returned,
                  started, compared >>

\* A gate that also lets a chaining failure through.
TrustGate_ChainingPasses(status) == status \in {ERROR_SUCCESS, CERT_E_CHAINING}

\* if (SD_VerifyEmbeddedSignature(path) == ERROR_SUCCESS)
TrustGate(status) == status = ERROR_SUCCESS

tgb_is_signed_AfterVerify(p) ==
  /\ pc[p] = "gate"
  /\ IF TrustGate(lStatus[p])
       THEN /\ pc' = [pc EXCEPT ![p] = "extract"]
            /\ UNCHANGED returned
       ELSE Return(p, "False")
  /\ UNCHANGED << world, args, budget, writes, Count, DoSecondPass, lStatus, pSignerInfo,
                  bRet, SignInfo, held, wvtLog, started, compared >>


\* -------------------------------------------- SD_GetAuthenticodeInformation
\* From entry to the fetch of the signer info: file-name conversion,
\* CryptQueryObject, the size query, LocalAlloc, the fetch.  Any failure
\* is a __leave with bRet still FALSE.
SD_GetAuthenticodeInformation_SignerInfo(p) ==
  /\ pc[p] = "extract"
  /\ \E conv \in Ans(world.conv, BOOLEAN) :
     \E cqo \in AskIf(conv, world.cqo, BOOLEAN, FALSE) :
     \E size \in AskIf(cqo, world.siSize, BOOLEAN, FALSE) :
     \E alloc \in AskIf(size, world.siAlloc, BOOLEAN, FALSE) :
     \E fetch \in AskIf(alloc, world.siFetch, {NULL} \cup {Ptr(l) : l \in AttrLists}, NULL) :
       /\ world' = [world EXCEPT !.conv = <<conv>>,
                                 !.cqo = Rec(conv, @, cqo),
                                 !.siSize = Rec(cqo, @, size),
                                 !.siAlloc = Rec(size, @, alloc),
                                 !.siFetch = Rec(alloc, @, fetch)]
       /\ held' = [held EXCEPT ![p] =
                     @ \cup (IF cqo THEN {"hStore", "hMsg"} ELSE {})
                       \cup (IF alloc THEN {"pSignerInfo"} ELSE {})]
       /\ pSignerInfo' = [pSignerInfo EXCEPT ![p] = fetch]
       \* The fetch writes into pSignerInfo, after the test of LocalAlloc.
       /\ writes' = [writes EXCEPT ![p] =
                       @ \cup (IF alloc THEN {Write("pSignerInfo", TRUE)} ELSE {})]
       /\ pc' = [pc EXCEPT ![p] = IF fetch # NULL THEN "opus" ELSE "finally"]
  /\ started' = [started EXCEPT ![p] = @ \cup {"SignerInfoExtractor"}]
  /\ UNCHANGED << args, budget, Count, DoSecondPass, lStatus, bRet, SignInfo,
                  returned, wvtLog, compared >>

\* A test that passes whatever extraction returned.
ExtractGate_Always(p) == TRUE

\* A test that also wants a program name.
ExtractGate_WantsProgramName(p) ==
  bRet[p] /\ SignInfo[p].lpszProgramName # NULL

\* if (SD_GetAuthenticodeInformation(path, &SignInfo))
ExtractGate(p) == bRet[p]

\* The __finally block, the return of bRet, and the test of it in
\* tgb_is_signed.
SD_GetAuthenticodeInformation_Finally(p) ==
  /\ pc[p] = "finally"
  /\ held' = [held EXCEPT ![p] = @ \ {"pSignerInfo", "hStore", "hMsg"}]
  /\ IF ExtractGate(p)
       THEN /\ pc' = [pc EXCEPT ![p] = "policy"]
            /\ UNCHANGED returned
       ELSE Return(p, "False")
  /\ UNCHANGED << world, args, budget, writes, Count, DoSecondPass, lStatus, pSignerInfo,
                  bRet, SignInfo, wvtLog, started, compared >>

\* ------------------------------------------------- GetProgAndPublisherInfo
\* A loop that goes on after a match: the last matching attribute wins.
OpusIndex_Last(attrs) ==
  IF \E n \in 1..Len(attrs) : attrs[n] = SPC_SP_OPUS_INFO_OBJID
    THEN CHOOSE n \in 1..Len(attrs) :
           /\ attrs[n] = SPC_SP_OPUS_INFO_OBJID
           /\ \A m \in (n + 1)..Len(attrs) : attrs[m] # SPC_SP_OPUS_INFO_OBJID
    ELSE 0

\* The index the for loop decodes: the first attribute whose identifier is
\* the opus-info identifier (the loop breaks or leaves there); 0 if none.
OpusIndex(attrs) ==
  IF \E n \in 1..Len(attrs) : attrs[n] = SPC_SP_OPUS_INFO_OBJID
    THEN CHOOSE n \in 1..Len(attrs) :
           /\ attrs[n] = SPC_SP_OPUS_INFO_OBJID
           /\ \A m \in 1..(n - 1) : attrs[m] # SPC_SP_OPUS_INFO_OBJID
    ELSE 0

\* AllocateAndCopyWideString: NULL when LocalAlloc fails.
AllocateAndCopyWideString(inputString, allocated) ==
  IF allocated THEN Ptr(inputString) ELSE NULL

\* A switch that copies the text of a link whatever its tag.
LinkIsCopied_AnyTag(link) == link # NULL

\* Does the switch on dwLinkChoice copy the link text?
LinkIsCopied(link) ==
  link # NULL /\ link[1].dwLinkChoice \in {SPC_URL_LINK_CHOICE, SPC_FILE_LINK_CHOICE}

\* The field a link ends up in.
LinkField(link, allocated) ==
  IF LinkIsCopied(link)
    THEN AllocateAndCopyWideString(link[1].text, allocated)
    ELSE NULL

GetProgAndPublisherInfo(p) ==
  /\ pc[p] = "opus"
  /\ LET n == OpusIndex(pSignerInfo[p][1])
         has == n # 0
     IN \E size \in AskIf(has, world.decodeSize[n], BOOLEAN, FALSE) :
        \E alloc \in AskIf(size, world.opusAlloc[n], BOOLEAN, FALSE) :
        \E dec \in AskIf(alloc, world.decode[n], {NULL} \cup {Ptr(i) : i \in OpusInfos}, NULL) :
          LET ok == dec # NULL
              needProgram == ok /\ dec[1].pwszProgramName # NULL
              needPublisher == ok /\ LinkIsCopied(dec[1].pPublisherInfo)
              needMore == ok /\ LinkIsCopied(dec[1].pMoreInfo)
          IN \E cp \in AskIf(needProgram, world.copyProgram, BOOLEAN, FALSE) :
             \E cl \in AskIf(needPublisher, world.copyPublisher, BOOLEAN, FALSE) :
             \E cm \in AskIf(needMore, world.copyMore, BOOLEAN, FALSE) :
               /\ world' = [world EXCEPT !.decodeSize[n] = Rec(has, @, size),
                                         !.opusAlloc[n] = Rec(size, @, alloc),
                                         !.decode[n] = Rec(alloc, @, dec),
                                         !.copyProgram = Rec(needProgram, @, cp),
                                         !.copyPublisher = Rec(needPublisher, @, cl),
                                         !.copyMore = Rec(needMore, @, cm)]
               /\ SignInfo' = [SignInfo EXCEPT
                    ![p].lpszProgramName =
                       IF needProgram
                         THEN AllocateAndCopyWideString(dec[1].pwszProgramName[1], cp)
                         ELSE IF ok THEN NULL ELSE @,
                    ![p].lpszPublisherLink =
                       IF ok THEN LinkField(dec[1].pPublisherInfo, cl) ELSE @,
                    ![p].lpszMoreInfoLink =
                       IF ok THEN LinkField(dec[1].pMoreInfo, cm) ELSE @]
               \* The decode writes into OpusInfo after the test of LocalAlloc;
               \* lstrcpyW writes into a copy after the test in
               \* AllocateAndCopyWideString.
               /\ writes' = [writes EXCEPT ![p] =
                     @ \cup (IF alloc THEN {Write("OpusInfo", TRUE)} ELSE {})
                       \cup (IF needProgram /\ cp THEN {Write("lpszProgramName", TRUE)} ELSE {})
                       \cup (IF needPublisher /\ cl THEN {Write("lpszPublisherLink", TRUE)} ELSE {})
                       \cup (IF needMore /\ cm THEN {Write("lpszMoreInfoLink", TRUE)} ELSE {})]
               \* OpusInfo is freed in the __finally block; the copies stay.
               /\ held' = [held EXCEPT ![p] =
                     @ \cup (IF needProgram /\ cp THEN {"lpszProgramName"} ELSE {})
                       \cup (IF needPublisher /\ cl THEN {"lpszPublisherLink"} ELSE {})
                       \cup (IF needMore /\ cm THEN {"lpszMoreInfoLink"} ELSE {})]
  /\ started' = [started EXCEPT ![p] = @ \cup {"OpusInfoParser"}]
  /\ pc' = [pc EXCEPT ![p] = "cert"]
  /\ UNCHANGED << args, budget, Count, DoSecondPass, lStatus, pSignerInfo, bRet,
                  returned, wvtLog, compared >>


\* ------------------------------------------------------ GetCertificateInfo
\* The whole function, and `bRet = TRUE` after it returns.  The serial
\* number buffer is written without a test of VirtualAlloc's result: when
\* the allocation fails the memcpy writes through NULL and the call dies.
\* A name buffer is zero-filled by VirtualAlloc (an empty string) until
\* CertGetNameString fills it.
GetCertificateInfo(p) ==
  /\ pc[p] = "cert"
  /\ \E found \in Ans(world.certFound, BOOLEAN) :
     \E sa \in AskIf(found, world.serialAlloc, BOOLEAN, FALSE) :
     \E isz \in AskIf(sa, world.issSize, BOOLEAN, FALSE) :
     \E ial \in AskIf(isz, world.issAlloc, BOOLEAN, FALSE) :
     \E ift \in AskIf(ial, world.issFetch, {NULL, Ptr(Name_IssuerCA)}, NULL) :
     \E ssz \in AskIf(sa, world.subSize, BOOLEAN, FALSE) :
     \E sal \in AskIf(ssz, world.subAlloc, BOOLEAN, FALSE) :
     \E sft \in AskIf(sal, world.subFetch, {NULL} \cup {Ptr(s) : s \in SubjectNames}, NULL) :
       /\ world' = [world EXCEPT !.certFound = <<found>>,
                                 !.serialAlloc = Rec(found, @, sa),
                                 !.issSize = Rec(sa, @, isz),
                                 !.issAlloc = Rec(isz, @, ial),
                                 !.issFetch = Rec(ial, @, ift),
                                 !.subSize = Rec(sa, @, ssz),
                                 !.subAlloc = Rec(ssz, @, sal),
                                 !.subFetch = Rec(sal, @, sft)]
       /\ SignInfo' = [SignInfo EXCEPT
            ![p].cbSerialSize = IF found THEN Len(SerialBytes) ELSE @,
            ![p].lpSerialNumber = IF sa THEN Ptr(SerialBytes) ELSE @,
            ![p].lpszIssuerName =
               IF ial THEN (IF ift # NULL THEN ift ELSE Ptr(Name_Empty)) ELSE @,
            ![p].lpszSubjectName =
               IF sal THEN (IF sft # NULL THEN sft ELSE Ptr(Name_Empty)) ELSE @]
       \* memcpy writes into lpSerialNumber whatever VirtualAlloc returned;
       \* CertGetNameString writes into a name buffer after the test of it.
       /\ writes' = [writes EXCEPT ![p] =
             @ \cup (IF found THEN {Write("lpSerialNumber", sa)} ELSE {})
               \cup (IF ial THEN {Write("lpszIssuerName", TRUE)} ELSE {})
               \cup (IF sal THEN {Write("lpszSubjectName", TRUE)} ELSE {})]
       /\ IF found /\ ~sa
            THEN /\ Fault(p)
                 /\ held' = [held EXCEPT ![p] = @ \cup {"pCertContext"}]
                 /\ UNCHANGED bRet
            ELSE /\ pc' = [pc EXCEPT ![p] = "finally"]
                 \* pCertContext is freed in the __finally block.
                 /\ held' = [held EXCEPT ![p] =
                       @ \cup (IF sa THEN {"lpSerialNumber"} ELSE {})
                         \cup (IF ial THEN {"lpszIssuerName"} ELSE {})
                         \cup (IF sal THEN {"lpszSubjectName"} ELSE {})]
                 /\ bRet' = [bRet EXCEPT ![p] = TRUE]
                 /\ UNCHANGED returned
  /\ started' = [started EXCEPT ![p] = @ \cup {"CertificateInspector"}]
  /\ UNCHANGED << args, budget, Count, DoSecondPass, lStatus, pSignerInfo,
                  wvtLog, compared >>

\* ------------------------------------------------- the publisher test
\* A comparison that is case-sensitive.
IsAllowedPublisher_CaseSensitive(subject) ==
  \/ \A i \in 1..PrefixLenTheGreenBow : CharAt(subject, i) = CharAt(TheGreenBow, i)
  \/ \A i \in 1..PrefixLenSISTECH : CharAt(subject, i) = CharAt(SISTECH, i)

\* _tcsncicmp(subject, "TheGreenBow", 11) == 0
\*   || _tcsncicmp(subject, "SISTECH", 7) == 0     (subject not NULL)
IsAllowedPublisher(subject) ==
  \/ tcsncicmp(subject, TheGreenBow, PrefixLenTheGreenBow) = 0
  \/ tcsncicmp(subject, SISTECH, PrefixLenSISTECH) = 0

\* What the C runtime of the build does with a NULL string argument: the
\* invalid-parameter handler ends the process ("fault"), or it returns and
\* the comparison yields _NLSCMPERROR, which is not 0 ("nonzero").
NullCompareOutcomes == { "fault", "nonzero" }

tgb_is_signed_Policy(p) ==
  /\ pc[p] = "policy"
  /\ LET subject == SignInfo[p].lpszSubjectName
         isNull == subject = NULL
     IN \E nc \in AskIf(isNull, world.nullcmp, NullCompareOutcomes, "nonzero") :
          /\ world' = [world EXCEPT !.nullcmp = Rec(isNull, @, nc)]
          /\ compared' = [compared EXCEPT ![p] = IF isNull THEN "NULL" ELSE "text"]
          /\ IF isNull
               THEN IF nc = "fault" THEN Fault(p) ELSE Return(p, "False")
               ELSE IF IsAllowedPublisher(subject[1])
                      THEN Return(p, "True")
                      ELSE Return(p, "False")
  /\ UNCHANGED << args, budget, writes, Count, DoSecondPass, lStatus, pSignerInfo, bRet,
                  SignInfo, held, wvtLog, started >>

\* ------------------------------------------------------ specifications
Step(p) ==
  \/ tgb_is_signed_Enter(p)
  \/ SD_VerifyEmbeddedSignature_Enter(p)
  \/ WinVerifyTrustAttempt(p)
  \/ tgb_is_signed_AfterVerify(p)
  \/ SD_GetAuthenticodeInformation_SignerInfo(p)
  \/ GetProgAndPublisherInfo(p)
  \/ GetCertificateInfo(p)
  \/ SD_GetAuthenticodeInformation_Finally(p)
  \/ tgb_is_signed_Policy(p)

Next == \E p \in Procs : Step(p)

Spec == Init /\ [][Next]_vars

SpecConc == InitConc /\ [][Next]_vars

\* One caller making MaxCalls consecutive calls on the file of ConcAnswers;
\* every platform call returns, so a request that can take a step takes it.
InitLive ==
  /\ InitLocalsBut(ConcAnswers)
  /\ budget = [p \in Procs |-> IF p = "r1" THEN MaxCalls ELSE 0]
  /\ args \in { a \in [Procs -> ArgKinds] : a["r2"] = "str" }

SpecLive == InitLive /\ [][Next]_vars /\ \A p \in Procs : WF_vars(Step(p))



\* =================================================================
\* Vocabulary of the properties
\* =================================================================
\* The last call of p has ended (by a return or by a fault).
Done(p) == pc[p] \in {"idle", "dead"} /\ returned[p] # <<>>

\* The outcome of the last call of p that has ended.
Last(p) == returned[p][Len(returned[p])]

\* p has passed a path and SD_VerifyEmbeddedSignature has returned in its
\* current (or last) call.
Verified(p) ==
  \/ pc[p] \in {"gate", "extract", "opus", "cert", "finally", "policy"}
  \/ Done(p) /\ args[p] = "str"

\* The first-attempt outcomes after which the specification retries.
RetryStatus == {CERT_E_CHAINING} \cup (Status \ NamedStatus)

toupper(c) == IF c \in 97..122 THEN c - 32 ELSE c

\* s begins with pre, letter case aside.
HasPrefixNoCase(s, pre) ==
  /\ Len(s) >= Len(pre)
  /\ \A i \in 1..Len(pre) : toupper(s[i]) = toupper(pre[i])

AllowList == { TheGreenBow, SISTECH }

\* The subject name of p is populated and begins with an allow-listed prefix.
SubjectMatches(p) ==
  /\ SignInfo[p].lpszSubjectName # NULL
  /\ \E pre \in AllowList : HasPrefixNoCase(SignInfo[p].lpszSubjectName[1], pre)

\* The trust result of a request run alone on the file of world w.
SoloTrust(w) ==
  LET first == w.wvt[WTD_CACHE_ONLY_URL_RETRIEVAL][1][1]
  IN IF first \in RetryStatus THEN w.wvt[0][1][1] ELSE first

\* The outcome of a request run alone on the file of world w, read off the
\* platform answers other than those about the opus-info attribute.
SoloOutcome(w) ==
  IF SoloTrust(w) # ERROR_SUCCESS THEN "False"
  ELSE IF \/ w.conv = <<FALSE>> \/ w.cqo = <<FALSE>> \/ w.siSize = <<FALSE>>
          \/ w.siAlloc = <<FALSE>> \/ w.siFetch = <<NULL>> THEN "False"
  ELSE IF w.certFound = <<TRUE>> /\ w.serialAlloc = <<FALSE>> THEN "fault"
  ELSE IF \/ w.certFound = <<FALSE>> \/ w.subSize = <<FALSE>>
          \/ w.subAlloc = <<FALSE>>
         THEN (IF w.nullcmp = <<"fault">> THEN "fault" ELSE "False")
  ELSE LET name == IF w.subFetch = <<NULL>> THEN Name_Empty ELSE w.subFetch[1][1]
       IN IF \E pre \in AllowList : HasPrefixNoCase(name, pre)
            THEN "True" ELSE "False"

\* An extraction error was met by the last call of p.
QueryFailed == world.conv = <<FALSE>> \/ world.cqo = <<FALSE>>
SignerInfoUnavailable ==
  world.siSize = <<FALSE>> \/ world.siAlloc = <<FALSE>> \/ world.siFetch = <<NULL>>
SignerCertificateNotFound == world.certFound = <<FALSE>>
NameUnavailable ==
  \/ world.issSize = <<FALSE>> \/ world.issAlloc = <<FALSE>> \/ world.issFetch = <<NULL>>
  \/ world.subSize = <<FALSE>> \/ world.subAlloc = <<FALSE>> \/ world.subFetch = <<NULL>>
ExtractionError(p) ==
  /\ "SignerInfoExtractor" \in started[p]
  /\ QueryFailed \/ SignerInfoUnavailable \/ SignerCertificateNotFound \/ NameUnavailable

\* =================================================================
\* C1.  A call that was given a path returns true exactly when the final
\* trust result is Success, extraction reported success and the subject name
\* begins, letter case aside, with "TheGreenBow" (11 characters) or
\* "SISTECH" (7 characters); a name that holds the prefix at an offset, or
\* that is shorter than the prefix, never gives true.
C1_TrueIffTrustedAllowListed ==
  \A p \in Procs :
    (Done(p) /\ args[p] = "str") =>
      /\ (Last(p) = "True")
           <=> (lStatus[p] = ERROR_SUCCESS /\ bRet[p] /\ SubjectMatches(p))
      /\ SignInfo[p].lpszSubjectName \in
           { Ptr(Name_NotTheGreenBowInc), Ptr(Name_TheGreenBo), Ptr(Name_SISTEC),
             Ptr(Name_XSISTECH) }
           => Last(p) # "True"

C1_Witness ==
  \E p \in Procs :
    /\ Done(p) /\ Last(p) = "True"
    /\ SignInfo[p].lpszSubjectName = Ptr(Name_thegreenbow)

\* C2.  Fail-closed: a call that was given a path always ends by returning
\* a boolean, and returns false whenever an extraction error occurred.
C2_FailClosed ==
  \A p \in Procs :
    (Done(p) /\ args[p] = "str") =>
      /\ Last(p) \in {"True", "False"}
      /\ ExtractionError(p) => Last(p) = "False"

\* C3.  Extraction steps are entered only after verify returned Success; a
\* call whose verify ended otherwise entered no extraction step and
\* returned false.
C3_NoExtractionWithoutTrust ==
  \A p \in Procs :
    /\ started[p] # {} =>
         /\ wvtLog[p] # <<>>
         /\ wvtLog[p][Len(wvtLog[p])].lStatus = ERROR_SUCCESS
         /\ lStatus[p] = ERROR_SUCCESS
         /\ "SignerInfoExtractor" \in started[p]
         /\ pc[p] \notin {"verify", "loop", "gate"}
    /\ (Done(p) /\ args[p] = "str" /\ lStatus[p] # ERROR_SUCCESS) =>
         started[p] = {} /\ Last(p) = "False"

C3_Witness ==
  \E p \in Procs :
    /\ Done(p) /\ lStatus[p] = "CRYPT_E_FILE_ERROR"
    /\ Len(wvtLog[p]) = 2 /\ started[p] = {} /\ Last(p) = "False"

\* C4.  The trust policy is invoked once or twice in every verify, never
\* more; after a second invocation the loop is over whatever it answered.
C4_OneOrTwoAttempts ==
  \A p \in Procs :
    /\ Len(wvtLog[p]) <= 2
    /\ Verified(p) => Len(wvtLog[p]) \in {1, 2}
    /\ Len(wvtLog[p]) = 2 => pc[p] # "loop"
    /\ pc[p] = "loop" => Len(wvtLog[p]) = Count[p]

C4_Witness ==
  \E p \in Procs :
    /\ pc[p] = "gate" /\ Len(wvtLog[p]) = 2
    /\ wvtLog[p][2].lStatus = CERT_E_CHAINING

\* C5.  A second attempt is made exactly when the first attempt answered
\* ChainingFailed or a code the switch does not name; Success, NotSigned
\* (whatever the last error), ExplicitlyDistrusted, UserDistrusted,
\* SecurityPolicyBlocked and SignatureInvalid end verify after one attempt.
C5_RetryIffChainingOrUnnamed ==
  \A p \in Procs :
    Verified(p) =>
      /\ wvtLog[p] # <<>>
      /\ wvtLog[p][1].lStatus \in RetryStatus => Len(wvtLog[p]) = 2
      /\ wvtLog[p][1].lStatus \in
           { ERROR_SUCCESS, TRUST_E_NOSIGNATURE, TRUST_E_EXPLICIT_DISTRUST,
             TRUST_E_SUBJECT_NOT_TRUSTED, CRYPT_E_SECURITY_SETTINGS,
             TRUST_E_BAD_DIGEST } => Len(wvtLog[p]) = 1

C5_Witness ==
  \E p \in Procs :
    /\ Done(p) /\ Len(wvtLog[p]) = 1
    /\ wvtLog[p][1].lStatus = TRUST_E_NOSIGNATURE
    /\ wvtLog[p][1].dwLastError = TRUST_E_PROVIDER_UNKNOWN

\* C6.  verify returns the outcome of its last attempt.  After a first
\* attempt that answered ChainingFailed there is exactly one retry: when it
\* answers Success the call goes on to extraction, and to the publisher test
\* once extraction reports success; when it fails the call returns false
\* with no extraction and no third attempt.
C6_LastAttemptDecides ==
  \A p \in Procs :
    Verified(p) =>
      /\ wvtLog[p] # <<>>
      /\ lStatus[p] = wvtLog[p][Len(wvtLog[p])].lStatus
      /\ wvtLog[p][1].lStatus = CERT_E_CHAINING =>
           /\ Len(wvtLog[p]) = 2
           /\ wvtLog[p][2].dwProvFlags = 0
           /\ (Done(p) /\ wvtLog[p][2].lStatus = ERROR_SUCCESS) =>
                /\ "SignerInfoExtractor" \in started[p]
                /\ bRet[p] => compared[p] # "nothing"
           /\ (Done(p) /\ wvtLog[p][2].lStatus # ERROR_SUCCESS) =>
                started[p] = {} /\ Last(p) = "False"

C6_Witness ==
  \E p \in Procs :
    /\ Done(p) /\ Len(wvtLog[p]) = 2
    /\ wvtLog[p][1].lStatus = CERT_E_CHAINING
    /\ wvtLog[p][2].lStatus = ERROR_SUCCESS
    /\ compared[p] = "text" /\ Last(p) = "True"

\* C7.  When a call returns it holds no native resource.
C7_NothingHeldAtReturn ==
  \A p \in Procs :
    (pc[p] = "idle" /\ returned[p] # <<>>) => held[p] = {}

\* C8.  The outcome of a call does not depend on the opus-info attribute: it
\* is a function of the platform answers that are not about that attribute.
\* A call on a file without the attribute leaves programName, publisherLink
\* and moreInfoLink empty.
C8_OpusInfoIsInformational ==
  \A p \in Procs :
    (Done(p) /\ args[p] = "str") =>
      /\ Last(p) = SoloOutcome(world)
      /\ (bRet[p] /\ OpusIndex(pSignerInfo[p][1]) = 0) =>
           /\ SignInfo[p].lpszProgramName = NULL
           /\ SignInfo[p].lpszPublisherLink = NULL
           /\ SignInfo[p].lpszMoreInfoLink = NULL

C8_Witness ==
  \E p \in Procs :
    /\ Done(p) /\ Last(p) = "True" /\ bRet[p]
    /\ pSignerInfo[p] = Ptr(<<OtherObjId>>)
    /\ SignInfo[p].lpszProgramName = NULL
    /\ SignInfo[p].lpszPublisherLink = NULL
    /\ SignInfo[p].lpszMoreInfoLink = NULL

\* C9.  Consecutive calls by one caller on the same file, with the same
\* platform answers, have the same outcome, and each call starts from an
\* all-empty SignatureInfo.
C9_RepeatedCallsAgree ==
  \A p \in Procs :
    /\ \A i, j \in 1..Len(returned[p]) : returned[p][i] = returned[p][j]
    /\ pc[p] = "verify" =>
         /\ SignInfo[p] = ZeroSignInfo
         /\ held[p] = {} /\ wvtLog[p] = <<>> /\ bRet[p] = FALSE

C9_Witness ==
  \E p \in Procs :
    /\ Len(returned[p]) = 2
    /\ returned[p][1] = "True" /\ returned[p][2] = "True"
    /\ Len(wvtLog[p]) = 2

\* C10.  Concurrent requests share no mutable state: every step changes the
\* counter, the retry flag, the trust status, the signer info, the
\* extraction result, the SignatureInfo and the resources of one request
\* only, and every request ends with the outcome it has when run alone.
C10_Frame ==
  \E p \in Procs : \A q \in Procs \ {p} :
    /\ Count'[q] = Count[q]
    /\ DoSecondPass'[q] = DoSecondPass[q]
    /\ lStatus'[q] = lStatus[q]
    /\ pSignerInfo'[q] = pSignerInfo[q]
    /\ bRet'[q] = bRet[q]
    /\ SignInfo'[q] = SignInfo[q]
    /\ held'[q] = held[q]
    /\ pc'[q] = pc[q]
    /\ returned'[q] = returned[q]
    /\ writes'[q] = writes[q]

C10_SoloOutcome ==
  \A p \in Procs :
    (Done(p) /\ args[p] = "str") => Last(p) = SoloOutcome(world)

C10_ConcurrentRequestsIndependent ==
  [] C10_SoloOutcome /\ [][C10_Frame]_vars

C10_Witness ==
  /\ \A p \in Procs : Done(p) /\ Last(p) = "True" /\ Len(wvtLog[p]) = 2
  /\ wvtLog["r1"][1].lStatus = CERT_E_CHAINING

\* -----------------------------------------------------------------
\* More vocabulary
\* -----------------------------------------------------------------
\* p is inside a call.
InCall(p) == pc[p] \notin {"idle", "dead"}

\* The signer-info step of the current call of p ran and failed.
SignerInfoFailed(p) ==
  /\ "SignerInfoExtractor" \in started[p]
  /\ pSignerInfo[p] = NULL

\* The opus-info step of the current call of p has run.
OpusRan(p) == "OpusInfoParser" \in started[p]

\* n is the place of the first opus-info attribute of attrs.
IsFirstOpus(attrs, n) ==
  /\ n \in 1..Len(attrs)
  /\ attrs[n] = SPC_SP_OPUS_INFO_OBJID
  /\ \A m \in 1..(n - 1) : attrs[m] # SPC_SP_OPUS_INFO_OBJID

\* The opus-info attribute at place n was decoded.
DecodedAt(n) ==
  /\ world.decodeSize[n] = <<TRUE>>
  /\ world.opusAlloc[n] = <<TRUE>>
  /\ world.decode[n] # <<>>
  /\ world.decode[n][1] # NULL

\* The text the tag of a link selects; NULL for no link or an unknown tag.
TextOfLink(link) ==
  IF link = NULL THEN NULL
  ELSE IF link[1].dwLinkChoice = SPC_URL_LINK_CHOICE THEN Ptr(Text_Url)
  ELSE IF link[1].dwLinkChoice = SPC_FILE_LINK_CHOICE THEN Ptr(Text_File)
  ELSE NULL

\* v when the copy could be allocated, else NULL.
IfCopied(v, cell) == IF v # NULL /\ cell = <<TRUE>> THEN v ELSE NULL

OpusFieldsEmpty(p) ==
  /\ SignInfo[p].lpszProgramName = NULL
  /\ SignInfo[p].lpszPublisherLink = NULL
  /\ SignInfo[p].lpszMoreInfoLink = NULL

\* The opus-info step never stops the pipeline.
OpusNeverFails(p) ==
  /\ OpusRan(p) => pc[p] \in {"cert", "finally", "policy", "idle", "dead"}
  /\ (OpusRan(p) /\ pc[p] # "cert") => "CertificateInspector" \in started[p]
  /\ (OpusRan(p) /\ pc[p] \in {"finally", "policy"}) => bRet[p]

\* Where a request is, as a number that grows along the pipeline.
Rank(l) ==
  CASE l = "verify" -> 1 [] l = "loop" -> 2 [] l = "gate" -> 3
    [] l = "extract" -> 4 [] l = "opus" -> 5 [] l = "cert" -> 6
    [] l = "finally" -> 7 [] l = "policy" -> 8 [] OTHER -> 9

\* =================================================================
\* C11.  Whenever extraction reports success, serialNumber, issuerName and
\* subjectName are all populated: no state has bRet TRUE with one of them
\* unset or unfilled.
C11_NamesAllOrNothing ==
  \A p \in Procs :
    bRet[p] =>
      /\ SignInfo[p].lpSerialNumber # NULL
      /\ SignInfo[p].lpszIssuerName # NULL /\ world.issFetch # <<NULL>>
      /\ SignInfo[p].lpszSubjectName # NULL /\ world.subFetch # <<NULL>>

\* C12.  The first attempt of a verify asks for cached data only and the
\* second, when there is one, does not; every attempt is made with the UI
\* and revocation checking off, on the file of the request.
C12_CacheThenNetwork ==
  \A p \in Procs : \A i \in 1..Len(wvtLog[p]) :
    /\ wvtLog[p][i].pcwszFilePath = "path"
    /\ wvtLog[p][i].dwUIChoice = "WTD_UI_NONE"
    /\ wvtLog[p][i].fdwRevocationChecks = "WTD_REVOKE_NONE"
    /\ i = 1 => wvtLog[p][i].dwProvFlags = WTD_CACHE_ONLY_URL_RETRIEVAL
    /\ i = 2 => wvtLog[p][i].dwProvFlags = 0
    /\ i <= 2

C12_Witness ==
  \E p \in Procs :
    /\ Len(wvtLog[p]) = 2
    /\ wvtLog[p][1].lStatus = "CERT_E_EXPIRED"
    /\ wvtLog[p][2].lStatus = ERROR_SUCCESS
    /\ wvtLog[p][2].dwProvFlags = 0

\* C13.  When the signer-info step fails, extraction reports failure,
\* neither the opus-info step nor the certificate step runs, SignatureInfo
\* stays all-empty, no comparison is made and the call returns false.
C13_SignerInfoFailureStops ==
  \A p \in Procs :
    SignerInfoFailed(p) =>
      /\ bRet[p] = FALSE
      /\ started[p] = {"SignerInfoExtractor"}
      /\ SignInfo[p] = ZeroSignInfo
      /\ compared[p] = "nothing"
      /\ pc[p] \in {"finally", "idle"}
      /\ pc[p] = "idle" => Last(p) = "False"

C13_Witness ==
  \E p \in Procs :
    /\ SignerInfoFailed(p) /\ Done(p) /\ Last(p) = "False"
    /\ world.siSize = <<TRUE>> /\ world.siAlloc = <<TRUE>>
    /\ world.siFetch = <<NULL>>

\* C14, as stated.  The opus-info step never fails; without a decoded
\* attribute the three fields stay empty; with one, programName is the
\* program name when present and empty otherwise, and each link is the text
\* its tag selects, empty for no link or an unknown tag.
C14_OpusFieldsAsClaimed ==
  \A p \in Procs :
    OpusRan(p) =>
      /\ OpusNeverFails(p)
      /\ \A n \in 1..MaxAttrs :
           IsFirstOpus(pSignerInfo[p][1], n) =>
             IF DecodedAt(n)
               THEN LET info == world.decode[n][1][1]
                    IN /\ SignInfo[p].lpszProgramName = info.pwszProgramName
                       /\ SignInfo[p].lpszPublisherLink = TextOfLink(info.pPublisherInfo)
                       /\ SignInfo[p].lpszMoreInfoLink = TextOfLink(info.pMoreInfo)
               ELSE OpusFieldsEmpty(p)
      /\ (\A n \in 1..MaxAttrs : ~IsFirstOpus(pSignerInfo[p][1], n)) => OpusFieldsEmpty(p)

\* C14, amended.  As above, but a field whose copy cannot be allocated is
\* empty too.
C14_OpusFieldsUnlessCopyFails ==
  \A p \in Procs :
    OpusRan(p) =>
      /\ OpusNeverFails(p)
      /\ \A n \in 1..MaxAttrs :
           IsFirstOpus(pSignerInfo[p][1], n) =>
             IF DecodedAt(n)
               THEN LET info == world.decode[n][1][1]
                    IN /\ SignInfo[p].lpszProgramName =
                            IfCopied(info.pwszProgramName, world.copyProgram)
                       /\ SignInfo[p].lpszPublisherLink =
                            IfCopied(TextOfLink(info.pPublisherInfo), world.copyPublisher)
                       /\ SignInfo[p].lpszMoreInfoLink =
                            IfCopied(TextOfLink(info.pMoreInfo), world.copyMore)
               ELSE OpusFieldsEmpty(p)
      /\ (\A n \in 1..MaxAttrs : ~IsFirstOpus(pSignerInfo[p][1], n)) => OpusFieldsEmpty(p)

C14_Witness ==
  \E p \in Procs :
    /\ Done(p) /\ OpusRan(p) /\ bRet[p]
    /\ pSignerInfo[p] = Ptr(<<OtherObjId, SPC_SP_OPUS_INFO_OBJID>>)
    /\ DecodedAt(2)
    /\ world.decode[2][1][1].pwszProgramName # NULL
    /\ world.copyProgram = <<FALSE>>
    /\ SignInfo[p].lpszProgramName = NULL
    /\ SignInfo[p].lpszPublisherLink = Ptr(Text_Url)
    /\ world.decode[2][1][1].pMoreInfo # NULL
    /\ SignInfo[p].lpszMoreInfoLink = NULL

\* C15.  Every call ends: a request inside a call leaves it; each step moves
\* the request forward in the pipeline, except a pass of the loop that is
\* followed by another, which happens at most once per call.
C15_Forward ==
  \A p \in Procs :
    InCall(p) =>
      \/ pc'[p] = pc[p] /\ wvtLog'[p] = wvtLog[p] /\ Count'[p] = Count[p]
      \/ Rank(pc'[p]) > Rank(pc[p])
      \/ /\ pc[p] = "loop" /\ pc'[p] = "loop"
         /\ Count'[p] = Count[p] + 1 /\ Count'[p] < 2
         /\ Len(wvtLog'[p]) = Len(wvtLog[p]) + 1

C15_EveryCallEnds ==
  /\ \A p \in Procs : InCall(p) ~> ~InCall(p)
  /\ [][C15_Forward]_vars

C15_Witness ==
  \E p \in Procs :
    /\ Len(returned[p]) = MaxCalls /\ pc[p] = "idle"
    /\ Len(wvtLog[p]) = 2 /\ compared[p] = "text"

\* C16.  The publisher comparison is only ever applied to a subject name
\* that was allocated and filled.
C16_ComparedOnlyWhenPopulated ==
  \A p \in Procs :
    compared[p] # "nothing" =>
      /\ compared[p] = "text"
      /\ SignInfo[p].lpszSubjectName # NULL
      /\ world.subFetch # <<NULL>>

\* C17.  Every buffer the pipeline writes into had been allocated.
C17_WritesOnlyIntoAllocated ==
  \A p \in Procs : \A w \in writes[p] : w.allocated

\* C18.  At most one attribute is decoded per request, the first one whose
\* identifier is the opus-info identifier; when its decode fails the three
\* fields stay empty, whatever attributes follow.
C18_OnlyFirstOpusAttribute ==
  \A p \in Procs :
    OpusRan(p) =>
      /\ \A n \in 0..MaxAttrs :
           world.decodeSize[n] # <<>> => IsFirstOpus(pSignerInfo[p][1], n)
      /\ \A n \in 1..MaxAttrs :
           (IsFirstOpus(pSignerInfo[p][1], n) /\ ~DecodedAt(n)) => OpusFieldsEmpty(p)
      /\ \A n \in 1..MaxAttrs :
           IsFirstOpus(pSignerInfo[p][1], n) => world.decodeSize[n] # <<>>

C18_Witness ==
  \E p \in Procs :
    /\ Done(p) /\ OpusRan(p)
    /\ pSignerInfo[p] = Ptr(<<SPC_SP_OPUS_INFO_OBJID, SPC_SP_OPUS_INFO_OBJID>>)
    /\ world.decodeSize[1] = <<TRUE>> /\ world.decode[1] = <<NULL>>
    /\ world.decodeSize[2] = <<>>
    /\ OpusFieldsEmpty(p)

====
